---- MODULE Spec2Model ----
(***************************************************************************)
(* A model of the Higgsfield gallery scraper (src/simple_scraper.py) and   *)
(* of the companion video downloader (src/video_downloader.py).            *)
(*                                                                         *)
(* The browser, the network and the file system are the environment: each  *)
(* call into them has its outcome drawn with \E from the outcomes the call *)
(* can have (a value, or an exception).  The Python code is sequential, so *)
(* each program is one process whose position is pc (scraper) or dpc       *)
(* (downloader).                                                           *)
(***************************************************************************)
EXTENDS Integers, Sequences, FiniteSets, TLC

(***************************************************************************)
(* Bounds of the model.                                                    *)
(***************************************************************************)
MaxFigures == 2
MaxRecords == 2
MaxSubs == 2
MaxFiles == 2

(***************************************************************************)
(* Python values.  A URL is a record of its host and of the last segment   *)
(* of its path, the segment being the sequence of its dot-separated parts  *)
(* ("a.b.mp4" is <<"a", "b", "mp4">>).  None and the empty string are      *)
(* values of their own: both are falsy, only None is null.                 *)
(***************************************************************************)
PyNone == [host |-> "None", seg |-> << >>]
PyEmpty == [host |-> "", seg |-> << >>]
NoneStr == "<None>"
EmptyStr == ""

OverlayUrl == [host |-> "x", seg |-> <<"a", "mp4">>]
InlineUrl == [host |-> "y", seg |-> <<"a", "mp4">>]

\* Python truthiness of a URL-valued and of a text-valued expression.
TruthyUrl(u) == u # PyNone /\ u # PyEmpty
TruthyStr(s) == s # NoneStr /\ s # EmptyStr

\* a or b, on URL values.
PyOr(a, b) == IF TruthyUrl(a) THEN a ELSE b

VARIABLES
    driver,        \* self.driver: "none" or "live"
    pc,            \* position in scrape_single_subcategory
    page,          \* the listing page: elements matching each selector
    figures,       \* len(figures)
    idx,           \* i + 1 of the for loop
    videos_data,   \* the list being accumulated
    item,          \* locals of the current iteration
    itemLog,       \* what each finished iteration did
    closeLog,      \* the steps and result of the last close_popup call
    closeEnv,      \* which steps of that call could succeed (close_popup alone)
    ret,           \* what the call returned
    propagated,    \* whether the call raised to its caller
    lastSave       \* what the caller's save_videos_data call wrote

scraperVars == <<driver, pc, page, figures, idx, videos_data, item, itemLog,
                 closeLog, closeEnv, ret, propagated, lastSave>>

VARIABLES
    dpc,              \* position in download_category_videos
    jsonFile,         \* the record file videos.json: its shape and its records
    disk,             \* the videos/ folder beside it: file name -> content
    di,               \* i + 1 of the loop over the records
    updated_videos,   \* the list that will be written back
    total_downloaded,
    total_failed,
    dlLog,            \* what was done for each record of this run
    fetched,          \* the file names requested over the network in this run
    obtained,         \* the file names fetched completely or found present in this run
    prevRun           \* the runs before: how many, what the last left in the file

dlVars == <<dpc, jsonFile, disk, di, updated_videos, total_downloaded,
            total_failed, dlLog, fetched, obtained, prevRun>>

VARIABLES
    cpc,          \* position in process_category, or in a lone save_videos_data call
    category,     \* category_name
    manifest,     \* the subcategories loaded from metadata.json
    si,           \* i of the loop over the subcategories
    fs,           \* the folders under the working directory: path -> its files
    subLog,       \* what was done for each entry of the manifest
    created,      \* the sessions created by setup_driver during the call
    catRaised     \* whether process_category raised to its caller

catVars == <<cpc, category, manifest, si, fs, subLog, created, catRaised>>

VARIABLES
    fpc,          \* position in download_category_videos over a category folder
    files,        \* the record files find_video_files gave, in order
    fi,           \* index of the file being processed
    fileLog,      \* what was done for each file
    dlRaised      \* whether download_category_videos raised to its caller

fileVars == <<fpc, files, fi, fileLog, dlRaised>>

VARIABLES
    popup         \* what the overlay holds (extract_prompt_from_popup alone)

VARIABLES
    rpc,          \* position in run
    todo          \* the categories run has still to process

runVars == <<rpc, todo>>

batchVars == <<catVars, fileVars, popup, runVars>>

vars == <<scraperVars, dlVars, batchVars>>

(***************************************************************************)
(* setup_driver: creates the driver only when there is none; re-raises.    *)
(* outcome: "ok", "create_fails" (webdriver.Chrome raises, self.driver     *)
(* stays None) or "config_fails" (a call on the new driver raises after    *)
(* self.driver was assigned).                                              *)
(***************************************************************************)
setup_driver(d, outcome) ==
    IF d # "none" THEN [driver |-> d, raised |-> FALSE]
    ELSE CASE outcome = "ok" -> [driver |-> "live", raised |-> FALSE]
           [] outcome = "create_fails" -> [driver |-> "none", raised |-> TRUE]
           [] OTHER -> [driver |-> "live", raised |-> TRUE]

SetupOutcomes == {"ok", "create_fails", "config_fails"}

\* A listing page: how many elements the primary selector and the looser
\* 'figure' selector match (every primary match is a figure element).
Pages == {pg \in [primary : 0..MaxFigures, loose : 0..MaxFigures, loaded : {TRUE}] :
             pg.primary <= pg.loose}

\* No page is loaded.  locErr: a call of the location step raised for a
\* reason other than the wait finding no element.
NoPage == [primary |-> 0, loose |-> 0, loaded |-> FALSE, locErr |-> FALSE]

\* FindFigures without the wait, and with a fallback selector loose enough to
\* match an element of a page that has no figure.
FindFiguresLooseFallback(waitOK, findErr, primaryFound, looseFound) ==
    IF findErr THEN 0
    ELSE IF primaryFound # 0 THEN primaryFound
    ELSE IF looseFound # 0 THEN looseFound
    ELSE 1

(***************************************************************************)
(* Lines 158-179.  wait.until raises TimeoutException unless an element    *)
(* matches the primary selector (waitOK); find_elements then gives the     *)
(* primary matches and, when there are none, the 'figure' matches.  Any    *)
(* exception in the block (findErr) returns [].  Result: the number of     *)
(* figures to process, 0 meaning 'return []'.                              *)
(***************************************************************************)
FindFigures(waitOK, findErr, primaryFound, looseFound) ==
    IF ~waitOK \/ findErr THEN 0
    ELSE IF primaryFound # 0 THEN primaryFound
    ELSE looseFound

\* The outer handler re-raising, as setup_driver's own handler does.
OuterHandlerReraises == "raise"

\* The outer handler of scrape_single_subcategory (lines 288-290): every
\* exception that reaches it is logged and turned into 'return []'.
OuterHandler == "return_empty"

ItemInit == [video_url |-> PyNone, link |-> FALSE, tries |-> << >>,
             could |-> << >>, clicked |-> FALSE, extracts |-> 0,
             extracted_data |-> [none |-> TRUE, video_url |-> PyNone, prompt |-> NoneStr],
             appended |-> FALSE, closes |-> 0, raised |-> FALSE, before |-> << >>]

CloseInit == [trace |-> << >>, result |-> FALSE, called |-> FALSE]

NoCloseEnv == [body |-> FALSE, win |-> FALSE, pos |-> FALSE, btn |-> "none",
               esc |-> FALSE, ovl |-> FALSE, back |-> FALSE]

NoSave == [written |-> FALSE, json |-> << >>, csv |-> << >>]

\* The downloader before its first run, and with no record file.
\* A record file: a bare list (shape "list"), or an object (shape "dict") with
\* or without the key 'videos' (key) and with its other fields (other).
NoFile == [shape |-> "list", key |-> FALSE, other |-> "none", videos |-> << >>]
NoRun == [done |-> 0, videos |-> << >>, obtained |-> {}, file |-> NoFile]

\* No overlay is being read.
NoPopup == [modal |-> FALSE, src |-> PyNone, copy |-> "absent", sibling |-> "absent",
            fallback |-> "absent"]

Init ==
    /\ driver = "none"
    /\ pc = "idle"
    /\ page = NoPage
    /\ figures = 0
    /\ idx = 0
    /\ videos_data = << >>
    /\ item = ItemInit
    /\ itemLog = << >>
    /\ closeLog = CloseInit
    /\ closeEnv = NoCloseEnv
    /\ ret = << >>
    /\ propagated = FALSE
    /\ lastSave = NoSave
    /\ dpc = "idle"
    /\ jsonFile = NoFile
    /\ disk = << >>
    /\ di = 0
    /\ updated_videos = << >>
    /\ total_downloaded = 0
    /\ total_failed = 0
    /\ dlLog = << >>
    /\ fetched = {}
    /\ obtained = {}
    /\ prevRun = NoRun
    /\ cpc = "off"
    /\ category = << >>
    /\ manifest = << >>
    /\ si = 0
    /\ fs = << >>
    /\ subLog = << >>
    /\ created = 0
    /\ catRaised = FALSE
    /\ fpc = "off"
    /\ files = << >>
    /\ fi = 0
    /\ fileLog = << >>
    /\ dlRaised = FALSE
    /\ popup = NoPopup
    /\ rpc = "off"
    /\ todo = << >>

(***************************************************************************)
(* scrape_single_subcategory, lines 107-181: driver setup, navigation and  *)
(* the location of the figures.                                            *)
(***************************************************************************)
ScrapeStart ==
    /\ pc \in {"idle", "saved"}
    /\ \E so \in SetupOutcomes, navOK \in BOOLEAN, waitErr \in BOOLEAN,
          findErr \in BOOLEAN, pg \in Pages :
        LET s == setup_driver(driver, so)
            \* the page does not change while it is being read
            n == FindFigures(~waitErr /\ pg.primary > 0, findErr, pg.primary, pg.loose)
            failed == s.raised \/ ~navOK
        IN  /\ driver' = s.driver
            /\ page' = IF failed THEN NoPage
                        ELSE [primary |-> pg.primary, loose |-> pg.loose,
                              loaded |-> TRUE, locErr |-> waitErr \/ findErr]
            /\ lastSave' = NoSave
            /\ closeEnv' = closeEnv
            /\ videos_data' = << >>
            /\ itemLog' = << >>
            /\ item' = ItemInit
            /\ closeLog' = CloseInit
            /\ IF failed
               THEN /\ pc' = "returned"
                    /\ propagated' = (OuterHandler # "return_empty")
                    /\ ret' = << >>
                    /\ figures' = 0
                    /\ idx' = 0
               ELSE IF n = 0
               THEN /\ pc' = "returned"
                    /\ propagated' = FALSE
                    /\ ret' = << >>
                    /\ figures' = 0
                    /\ idx' = 0
               ELSE /\ pc' = "item"
                    /\ propagated' = FALSE
                    /\ ret' = << >>
                    /\ figures' = n
                    /\ idx' = 1
    /\ UNCHANGED <<dlVars, batchVars>>

(***************************************************************************)
(* Lines 215-244: the three click methods, each tried only when the one    *)
(* before raised.  c1, c2, c3: whether the regular click, the JavaScript   *)
(* click and the ActionChains click succeed.                               *)
(***************************************************************************)
\* The JavaScript click tried first, the regular click second.
ClickLinkScriptFirst(c1, c2, c3) ==
    IF c2 THEN [tries |-> <<"js">>, clicked |-> TRUE, could |-> <<c1, c2, c3>>]
    ELSE IF c1 THEN [tries |-> <<"js", "click">>, clicked |-> TRUE,
                     could |-> <<c1, c2, c3>>]
    ELSE IF c3 THEN [tries |-> <<"js", "click", "actions">>, clicked |-> TRUE,
                     could |-> <<c1, c2, c3>>]
    ELSE [tries |-> <<"js", "click", "actions">>, clicked |-> FALSE,
          could |-> <<c1, c2, c3>>]

\* could: which of the three methods succeed on this link when called.
ClickLink(c1, c2, c3) ==
    IF c1 THEN [tries |-> <<"click">>, clicked |-> TRUE, could |-> <<c1, c2, c3>>]
    ELSE IF c2 THEN [tries |-> <<"click", "js">>, clicked |-> TRUE,
                     could |-> <<c1, c2, c3>>]
    ELSE IF c3 THEN [tries |-> <<"click", "js", "actions">>, clicked |-> TRUE,
                     could |-> <<c1, c2, c3>>]
    ELSE [tries |-> <<"click", "js", "actions">>, clicked |-> FALSE,
          could |-> <<c1, c2, c3>>]

\* What get_attribute('src') of a video[src] element can give, None standing
\* also for 'no such element' (the variable keeps its initial None).
InlineSrcs == {PyNone, PyEmpty, InlineUrl}
OverlaySrcs == {PyNone, PyEmpty, OverlayUrl}

(***************************************************************************)
(* Lines 187-244 of the loop body: the inline video URL, the link, the     *)
(* scroll and the click.  The scroll (line 210) is outside the inner       *)
(* try blocks: its exception goes to the handler of line 274, which calls  *)
(* close_popup.                                                            *)
(***************************************************************************)
\* FigureStep without the 'continue' of line 206: the scroll and the three
\* clicks are made on an item that has no link, and all three clicks raise.
FigureStepNoContinue(start, hasLink, scrollOK, c) ==
    IF ~scrollOK
    THEN [item |-> [start EXCEPT !.link = hasLink, !.raised = TRUE], pc |-> "close"]
    ELSE IF ~hasLink
    THEN [item |-> [start EXCEPT !.tries = <<"click", "js", "actions">>],
          pc |-> "next"]
    ELSE [item |-> [start EXCEPT !.link = TRUE, !.tries = c.tries,
                                 !.could = c.could, !.clicked = c.clicked],
          pc |-> IF c.clicked THEN "extract" ELSE "next"]

FigureStep(start, hasLink, scrollOK, c) ==
    IF ~hasLink
    THEN [item |-> start, pc |-> "next"]
    ELSE IF ~scrollOK
    THEN [item |-> [start EXCEPT !.link = TRUE, !.raised = TRUE], pc |-> "close"]
    ELSE [item |-> [start EXCEPT !.link = TRUE, !.tries = c.tries,
                                 !.could = c.could, !.clicked = c.clicked],
          pc |-> IF c.clicked THEN "extract" ELSE "next"]

ProcessFigure ==
    /\ pc = "item"
    /\ idx <= figures
    /\ \E src \in InlineSrcs, hasLink \in BOOLEAN, scrollOK \in BOOLEAN,
          c1 \in BOOLEAN, c2 \in BOOLEAN, c3 \in BOOLEAN :
        LET start == [ItemInit EXCEPT !.video_url = src, !.before = videos_data]
            r == FigureStep(start, hasLink, scrollOK, ClickLink(c1, c2, c3))
        IN  /\ item' = r.item
            /\ pc' = r.pc
    /\ UNCHANGED <<driver, page, figures, idx, videos_data, itemLog,
                   closeLog, closeEnv, ret, propagated, lastSave, dlVars, batchVars>>

(***************************************************************************)
(* extract_prompt_from_popup, lines 292-341.                               *)
(*   modal    whether the wait for the dialog element succeeds             *)
(*   src      the src of the modal's video element (None: no element)      *)
(*   copy     the stripped text of the [data-copy-prompt] element, or      *)
(*            "absent" when the lookup raises                              *)
(*   sibling  the stripped text of the element next to it, or "absent"     *)
(*   fallback the stripped text of the first .prompt/.description/p        *)
(*            element, or "absent"                                         *)
(***************************************************************************)
Absent == "absent"
CopyTexts == {Absent, EmptyStr, "true", "p"}
NearTexts == {Absent, EmptyStr, "p"}

ExtractNone == [none |-> TRUE, video_url |-> PyNone, prompt |-> NoneStr]

\* The lookup of the video element outside its try block: with no such
\* element the exception goes to the handler of line 339.
extract_prompt_from_popup_unguarded(modal, src, copy, sibling, fallback) ==
    IF ~modal \/ src = PyNone THEN ExtractNone
    ELSE LET prompt ==
               IF copy # Absent
               THEN IF (copy = EmptyStr \/ copy = "true") /\ sibling # Absent
                    THEN sibling
                    ELSE copy
               ELSE IF fallback # Absent THEN fallback ELSE NoneStr
         IN  [none |-> FALSE, video_url |-> src, prompt |-> prompt]

extract_prompt_from_popup(modal, src, copy, sibling, fallback) ==
    IF ~modal THEN ExtractNone
    ELSE LET prompt ==
               IF copy # Absent
               THEN IF (copy = EmptyStr \/ copy = "true") /\ sibling # Absent
                    THEN sibling
                    ELSE copy
               ELSE IF fallback # Absent THEN fallback ELSE NoneStr
         IN  [none |-> FALSE, video_url |-> src, prompt |-> prompt]

(***************************************************************************)
(* Lines 252-259: the test that decides whether a record is appended, and  *)
(* the record.  Both use Python truthiness.                                *)
(***************************************************************************)
\* The test of line 252 looking at the prompt alone.
HasDataPromptOnly(d) == ~d.none /\ TruthyStr(d.prompt)

\* The test of line 252 reduced to 'if extracted_data:'.
HasDataAnyDict(d) == ~d.none

HasData(d) == ~d.none /\ (TruthyStr(d.prompt) \/ TruthyUrl(d.video_url))

\* The operands of line 254 exchanged: the inline URL first.
final_video_url_inline_first(d, video_url) == PyOr(video_url, d.video_url)

final_video_url(d, video_url) == PyOr(d.video_url, video_url)

NewRecord(d, video_url) ==
    [video_url |-> final_video_url(d, video_url), prompt |-> d.prompt]

\* Lines 246-266: the extraction and the append.
ExtractStep ==
    /\ pc = "extract"
    /\ \E modal \in BOOLEAN, src \in OverlaySrcs, copy \in CopyTexts,
          sibling \in NearTexts, fallback \in NearTexts :
        LET d == extract_prompt_from_popup(modal, src, copy, sibling, fallback)
        IN  /\ item' = [item EXCEPT !.extracts = @ + 1, !.extracted_data = d,
                                    !.appended = HasData(d)]
            /\ videos_data' = IF HasData(d)
                              THEN Append(videos_data, NewRecord(d, item.video_url))
                              ELSE videos_data
    /\ pc' = "close"
    /\ UNCHANGED <<driver, page, figures, idx, itemLog, closeLog, closeEnv, ret,
                   propagated, lastSave, dlVars, batchVars>>

(***************************************************************************)
(* close_popup, lines 343-487.  The six steps in the order of the source;  *)
(* e says which of them succeed:                                           *)
(*   body  find body and click it                                          *)
(*   win   get_window_size; pos: whether the click at one of the five      *)
(*         screen positions succeeds                                       *)
(*   btn   how the first displayed and enabled close button was clicked:   *)
(*         "click", "js", or "none" when no selector gave one              *)
(*   esc   find body and send Escape three times                           *)
(*   ovl   click of a displayed overlay or backdrop element                *)
(*   back  driver.back()                                                   *)
(***************************************************************************)
CloseSteps == <<"body", "positions", "buttons", "escape", "overlay", "back">>

CloseEnvs == [body : BOOLEAN, win : BOOLEAN, pos : BOOLEAN,
              btn : {"none", "click", "js"}, esc : BOOLEAN, ovl : BOOLEAN,
              back : BOOLEAN]

StepSucceeds(step, e) ==
    CASE step = "body" -> e.body
      [] step = "positions" -> e.win /\ e.pos
      [] step = "buttons" -> e.btn # "none"
      [] step = "escape" -> e.esc
      [] step = "overlay" -> e.ovl
      [] OTHER -> e.back

\* The chain without its early returns: every step runs.
RECURSIVE CloseFromNoReturn(_, _, _)
CloseFromNoReturn(k, e, trace) ==
    IF k > Len(CloseSteps)
    THEN [trace |-> trace,
          result |-> \E j \in 1..Len(CloseSteps) : StepSucceeds(CloseSteps[j], e)]
    ELSE CloseFromNoReturn(k + 1, e, Append(trace, CloseSteps[k]))

RECURSIVE CloseFrom(_, _, _)
CloseFrom(k, e, trace) ==
    IF k > Len(CloseSteps) THEN [trace |-> trace, result |-> FALSE]
    ELSE IF StepSucceeds(CloseSteps[k], e)
         THEN [trace |-> Append(trace, CloseSteps[k]), result |-> TRUE]
         ELSE CloseFrom(k + 1, e, Append(trace, CloseSteps[k]))

close_popup(e) == CloseFrom(1, e, << >>)

\* close_popup called only under the 'if' of line 252, after a record was
\* appended.
ClosePopupStepOnlyOnData ==
    /\ pc = "close"
    /\ IF item.appended
       THEN /\ \E e \in CloseEnvs :
                 LET r == close_popup(e)
                 IN  closeLog' = [trace |-> r.trace, result |-> r.result,
                                  called |-> TRUE]
            /\ item' = [item EXCEPT !.closes = @ + 1]
       ELSE UNCHANGED <<closeLog, item>>
    /\ pc' = "next"
    /\ UNCHANGED <<driver, page, figures, idx, videos_data, itemLog, closeEnv,
                   ret, propagated, lastSave, dlVars, batchVars>>

\* Line 269, and line 278 in the handler of the iteration.
ClosePopupStep ==
    /\ pc = "close"
    /\ \E e \in CloseEnvs :
        LET r == close_popup(e)
        IN  closeLog' = [trace |-> r.trace, result |-> r.result, called |-> TRUE]
    /\ item' = [item EXCEPT !.closes = @ + 1]
    /\ pc' = "next"
    /\ UNCHANGED <<driver, page, figures, idx, videos_data, itemLog, closeEnv,
                   ret, propagated, lastSave, dlVars, batchVars>>

\* The summary of a finished iteration.
NoRecord == [video_url |-> PyNone, prompt |-> NoneStr]

Summary(it, data) ==
    [link |-> it.link, clicked |-> it.clicked, extracts |-> it.extracts,
     closes |-> it.closes, appended |-> it.appended, raised |-> it.raised,
     rec |-> IF it.appended THEN data[Len(data)] ELSE NoRecord]

\* The end of an iteration: continue, or the end of the loop body.
NextFigure ==
    /\ pc = "next"
    /\ itemLog' = Append(itemLog, Summary(item, videos_data))
    /\ idx' = idx + 1
    /\ item' = ItemInit
    /\ closeLog' = CloseInit
    /\ pc' = "item"
    /\ UNCHANGED <<driver, page, figures, videos_data, closeEnv, ret, propagated,
                   lastSave, dlVars, batchVars>>

\* Lines 283-286: the loop is over, the list is returned.
ScrapeReturn ==
    /\ pc = "item"
    /\ idx > figures
    /\ ret' = videos_data
    /\ pc' = "returned"
    /\ UNCHANGED <<driver, page, figures, idx, videos_data, item, itemLog,
                   closeLog, closeEnv, propagated, lastSave, dlVars, batchVars>>

(***************************************************************************)
(* save_videos_data, lines 489-524: nothing is written for an empty list;  *)
(* otherwise the list goes to videos.json as it is and to videos.csv row   *)
(* by row.  The csv writer writes None as the empty string.                *)
(***************************************************************************)
CsvUrl(u) == IF u = PyNone THEN PyEmpty ELSE u
CsvText(t) == IF t = NoneStr THEN EmptyStr ELSE t

CsvRows(data) ==
    [i \in 1..Len(data) |->
        [video_url |-> CsvUrl(data[i].video_url), prompt |-> CsvText(data[i].prompt)]]

\* save_videos_data writing even an empty list.
save_videos_data_no_guard(data) ==
    [written |-> TRUE, json |-> data, csv |-> CsvRows(data)]

save_videos_data(data) ==
    IF data = << >> THEN NoSave
    ELSE [written |-> TRUE, json |-> data, csv |-> CsvRows(data)]

\* The caller of scrape_single_subcategory (lines 559-567 and 667-675):
\* it saves the list unless the list is empty.
SaveStep ==
    /\ pc = "returned"
    /\ lastSave' = IF ret # << >> THEN save_videos_data(ret) ELSE NoSave
    /\ pc' = "saved"
    /\ UNCHANGED <<driver, page, figures, idx, videos_data, item, itemLog,
                   closeLog, closeEnv, ret, propagated, dlVars, batchVars>>

(***************************************************************************)
(* The downloader, src/video_downloader.py.                                *)
(*                                                                         *)
(* The record file is videos.json of one subcategory folder; disk is the   *)
(* videos/ folder beside it.  A file name is the sequence of its           *)
(* dot-separated parts, like the segment of a URL.                         *)
(***************************************************************************)
UrlA == [host |-> "x", seg |-> <<"a", "mp4">>]
UrlAB == [host |-> "x", seg |-> <<"a", "b", "mp4">>]
UrlBin == [host |-> "x", seg |-> <<"c", "bin">>]
UrlWebm == [host |-> "x", seg |-> <<"d", "webm">>]
UrlOther == [host |-> "y", seg |-> <<"a", "mp4">>]
\* A video_url that is not a string: urlparse raises on it.
BadUrl == [host |-> "<int>", seg |-> << >>]

RealUrls == {UrlA, UrlAB, UrlBin, UrlWebm, UrlOther}
FileUrls == RealUrls \cup {PyNone, BadUrl}

\* path.endswith('.' + ext), path being the path of the URL.
EndsWith(url, ext) == Len(url.seg) >= 2 /\ url.seg[Len(url.seg)] = ext

\* get_file_extension, lines 78-90 (the extension without its dot).
get_file_extension(url) ==
    IF EndsWith(url, "mp4") THEN "mp4"
    ELSE IF EndsWith(url, "webm") THEN "webm"
    ELSE IF EndsWith(url, "mov") THEN "mov"
    ELSE "mp4"

\* Line 181: os.path.basename(urlparse(video_url).path).split('.')[0].
video_id(url) == url.seg[1]

\* Line 183: f"{video_id}{extension}".
Filename(url) == <<video_id(url), get_file_extension(url)>>

NoName == << >>
NoPath == [dir |-> "", name |-> NoName]

\* Line 186: os.path.join(videos_folder, filename).
SavePath(name) == [dir |-> "videos", name |-> name]

FileNames == {Filename(u) : u \in RealUrls}

Missing == [state |-> "missing", src |-> PyNone]
PreExisting == [state |-> "pre", src |-> PyNone]

Exists(d, name) == d[name] # Missing

FetchOutcomes == {"ok", "http_error", "stream_error"}

\* download_video with 'return True' reached on every path.
download_video_always_true(d, url, name, outcome) ==
    CASE outcome = "ok" ->
           [disk |-> [d EXCEPT ![name] = [state |-> "full", src |-> url]], ok |-> TRUE]
      [] outcome = "http_error" -> [disk |-> d, ok |-> TRUE]
      [] OTHER ->
           [disk |-> [d EXCEPT ![name] = [state |-> "partial", src |-> url]], ok |-> TRUE]

(***************************************************************************)
(* download_video, lines 100-128.  "http_error": the request or            *)
(* raise_for_status raises, before the file is opened.  "stream_error":    *)
(* an exception after open(save_path, 'wb'), which has created the file;   *)
(* what was written stays on disk.                                         *)
(***************************************************************************)
download_video(d, url, name, outcome) ==
    CASE outcome = "ok" ->
           [disk |-> [d EXCEPT ![name] = [state |-> "full", src |-> url]], ok |-> TRUE]
      [] outcome = "http_error" -> [disk |-> d, ok |-> FALSE]
      [] OTHER ->
           [disk |-> [d EXCEPT ![name] = [state |-> "partial", src |-> url]], ok |-> FALSE]

WithLocal(video, name) ==
    [video EXCEPT !.local_file_path = SavePath(name), !.filename = name]

\* The body of the loop without the test of line 189.
ProcessVideoNoExistsTest(video, d, outcome) ==
    IF video.video_url = BadUrl
    THEN [video |-> video, disk |-> d, kind |-> "error", name |-> NoName,
          fetch |-> FALSE]
    ELSE IF ~TruthyUrl(video.video_url)
    THEN [video |-> video, disk |-> d, kind |-> "nourl", name |-> NoName,
          fetch |-> FALSE]
    ELSE LET name == Filename(video.video_url)
             r == download_video(d, video.video_url, name, outcome)
         IN  IF r.ok
             THEN [video |-> WithLocal(video, name), disk |-> r.disk, kind |-> "ok",
                   name |-> name, fetch |-> TRUE]
             ELSE [video |-> video, disk |-> r.disk, kind |-> "failed",
                   name |-> name, fetch |-> TRUE]

\* The body of the loop with lines 192-193 left out of the 'exists' branch.
ProcessVideoNoBackfill(video, d, outcome) ==
    IF video.video_url = BadUrl
    THEN [video |-> video, disk |-> d, kind |-> "error", name |-> NoName,
          fetch |-> FALSE]
    ELSE IF ~TruthyUrl(video.video_url)
    THEN [video |-> video, disk |-> d, kind |-> "nourl", name |-> NoName,
          fetch |-> FALSE]
    ELSE LET name == Filename(video.video_url)
             r == download_video(d, video.video_url, name, outcome)
         IN  IF Exists(d, name)
             THEN [video |-> video, disk |-> d, kind |-> "exists", name |-> name,
                   fetch |-> FALSE]
             ELSE IF r.ok
             THEN [video |-> WithLocal(video, name), disk |-> r.disk, kind |-> "ok",
                   name |-> name, fetch |-> TRUE]
             ELSE [video |-> video, disk |-> r.disk, kind |-> "failed",
                   name |-> name, fetch |-> TRUE]

(***************************************************************************)
(* Lines 171-215, the body of the loop over the records.  kind says which  *)
(* path was taken:                                                         *)
(*   "error"   an exception in the body (handler of line 211)              *)
(*   "nourl"   no video_url (line 176)                                     *)
(*   "exists"  the target path exists (line 189)                           *)
(*   "ok"      download_video returned True                                *)
(*   "failed"  download_video returned False                               *)
(* fetch: whether download_video was called.                               *)
(***************************************************************************)
ProcessVideo(video, d, outcome) ==
    IF video.video_url = BadUrl
    THEN [video |-> video, disk |-> d, kind |-> "error", name |-> NoName,
          fetch |-> FALSE]
    ELSE IF ~TruthyUrl(video.video_url)
    THEN [video |-> video, disk |-> d, kind |-> "nourl", name |-> NoName,
          fetch |-> FALSE]
    ELSE LET name == Filename(video.video_url)
             r == download_video(d, video.video_url, name, outcome)
         IN  IF Exists(d, name)
             THEN [video |-> WithLocal(video, name), disk |-> d, kind |-> "exists",
                   name |-> name, fetch |-> FALSE]
             ELSE IF r.ok
             THEN [video |-> WithLocal(video, name), disk |-> r.disk, kind |-> "ok",
                   name |-> name, fetch |-> TRUE]
             ELSE [video |-> video, disk |-> r.disk, kind |-> "failed",
                   name |-> name, fetch |-> TRUE]

\* A record as the scraper writes it.
ScrapedRecord(url) ==
    [video_url |-> url, prompt |-> "p", local_file_path |-> NoPath,
     filename |-> NoName]

RecordLists ==
    UNION {[1..n -> {ScrapedRecord(u) : u \in FileUrls}] : n \in 0..MaxRecords}

\* The videos/ folder before the first run: empty, or holding a file left by
\* a run whose record file the scraper has since written again.
EmptyDisk == [f \in FileNames |-> Missing]
InitialDisks == {EmptyDisk, [EmptyDisk EXCEPT ![Filename(UrlA)] = PreExisting]}

\* What json.load gives for the record file: a list of records, an object
\* holding them under 'videos' beside other fields, or an object without
\* that key, for which .get('videos', []) gives the empty list.
JsonFiles ==
    [shape : {"list"}, key : {FALSE}, other : {"none"}, videos : RecordLists]
        \cup [shape : {"dict"}, key : {TRUE}, other : {"meta"}, videos : RecordLists]
        \cup [shape : {"dict"}, key : {FALSE}, other : {"meta"}, videos : {<< >>}]

\* The list written back bare, whatever was read.
RewriteFileAsList(file, updated) ==
    [shape |-> "list", key |-> FALSE, other |-> "none", videos |-> updated]

\* Lines 217-225: a list is replaced by the list of the updated records;
\* in an object the list is assigned to 'videos' and the object is dumped.
RewriteFile(file, updated) ==
    IF file.shape = "list"
    THEN [file EXCEPT !.videos = updated]
    ELSE [file EXCEPT !.videos = updated, !.key = TRUE]

DlInit ==
    /\ driver = "none"
    /\ pc = "idle"
    /\ page = NoPage
    /\ figures = 0
    /\ idx = 0
    /\ videos_data = << >>
    /\ item = ItemInit
    /\ itemLog = << >>
    /\ closeLog = CloseInit
    /\ closeEnv = NoCloseEnv
    /\ ret = << >>
    /\ propagated = FALSE
    /\ lastSave = NoSave
    /\ dpc = "idle"
    /\ jsonFile \in JsonFiles
    /\ disk \in InitialDisks
    /\ di = 0
    /\ updated_videos = << >>
    /\ total_downloaded = 0
    /\ total_failed = 0
    /\ dlLog = << >>
    /\ fetched = {}
    /\ obtained = {}
    /\ prevRun = NoRun
    /\ cpc = "off"
    /\ category = << >>
    /\ manifest = << >>
    /\ si = 0
    /\ fs = << >>
    /\ subLog = << >>
    /\ created = 0
    /\ catRaised = FALSE
    /\ fpc = "off"
    /\ files = << >>
    /\ fi = 0
    /\ fileLog = << >>
    /\ dlRaised = FALSE
    /\ popup = NoPopup
    /\ rpc = "off"
    /\ todo = << >>

\* Lines 130-169: the record file is found and loaded, the videos/ folder
\* made, the counters and the list of updated records started.
DlStart ==
    /\ dpc = "idle"
    /\ dpc' = "rec"
    /\ di' = 1
    /\ updated_videos' = << >>
    /\ total_downloaded' = 0
    /\ total_failed' = 0
    /\ dlLog' = << >>
    /\ fetched' = {}
    /\ obtained' = {}
    /\ UNCHANGED <<jsonFile, disk, prevRun, scraperVars, batchVars>>

\* Lines 171-215: one record.
DlRecord ==
    /\ dpc = "rec"
    /\ di <= Len(jsonFile.videos)
    /\ \E outcome \in FetchOutcomes :
        LET video == jsonFile.videos[di]
            r == ProcessVideo(video, disk, outcome)
            real == TruthyUrl(video.video_url) /\ video.video_url # BadUrl
            name == IF real THEN Filename(video.video_url) ELSE NoName
        IN  /\ updated_videos' = Append(updated_videos, r.video)
            /\ disk' = r.disk
            /\ total_downloaded' = total_downloaded + (IF r.kind = "ok" THEN 1 ELSE 0)
            /\ total_failed' =
                   total_failed + (IF r.kind \in {"failed", "error"} THEN 1 ELSE 0)
            /\ dlLog' = Append(dlLog,
                   [kind |-> r.kind, name |-> name,
                    existed |-> real /\ Exists(disk, name),
                    before |-> IF real THEN disk[name] ELSE Missing,
                    fetch |-> r.fetch,
                    outcome |-> IF r.fetch THEN outcome ELSE "none"])
            /\ fetched' = IF r.fetch THEN fetched \cup {r.name} ELSE fetched
            /\ obtained' = IF r.kind \in {"ok", "exists"}
                           THEN obtained \cup {r.name} ELSE obtained
    /\ di' = di + 1
    /\ UNCHANGED <<dpc, jsonFile, prevRun, scraperVars, batchVars>>

\* Lines 217-227: the file is written back in the shape it was read in.
DlRewrite ==
    /\ dpc = "rec"
    /\ di > Len(jsonFile.videos)
    /\ jsonFile' = RewriteFile(jsonFile, updated_videos)
    /\ prevRun' = [done |-> IF prevRun.done < 2 THEN prevRun.done + 1 ELSE 2,
                   videos |-> jsonFile.videos, obtained |-> obtained,
                   file |-> jsonFile]
    /\ dpc' = "idle"
    /\ UNCHANGED <<disk, di, updated_videos, total_downloaded, total_failed, dlLog,
                   fetched, obtained, scraperVars, batchVars>>

DlNext ==
    \/ DlStart
    \/ DlRecord
    \/ DlRewrite

DownloaderSpec == DlInit /\ [][DlNext]_vars

Next ==
    \/ ScrapeStart
    \/ ProcessFigure
    \/ ExtractStep
    \/ ClosePopupStep
    \/ NextFigure
    \/ ScrapeReturn
    \/ SaveStep

Spec == Init /\ [][Next]_vars

(***************************************************************************)
(* close_popup on its own: every combination of steps that can succeed.    *)
(***************************************************************************)
CloseOnlyInit ==
    /\ driver = "live"
    /\ pc = "close_popup"
    /\ page = NoPage
    /\ figures = 0
    /\ idx = 0
    /\ videos_data = << >>
    /\ item = ItemInit
    /\ itemLog = << >>
    /\ closeLog = CloseInit
    /\ closeEnv \in CloseEnvs
    /\ ret = << >>
    /\ propagated = FALSE
    /\ lastSave = NoSave
    /\ dpc = "idle"
    /\ jsonFile = NoFile
    /\ disk = << >>
    /\ di = 0
    /\ updated_videos = << >>
    /\ total_downloaded = 0
    /\ total_failed = 0
    /\ dlLog = << >>
    /\ fetched = {}
    /\ obtained = {}
    /\ prevRun = NoRun
    /\ cpc = "off"
    /\ category = << >>
    /\ manifest = << >>
    /\ si = 0
    /\ fs = << >>
    /\ subLog = << >>
    /\ created = 0
    /\ catRaised = FALSE
    /\ fpc = "off"
    /\ files = << >>
    /\ fi = 0
    /\ fileLog = << >>
    /\ dlRaised = FALSE
    /\ popup = NoPopup
    /\ rpc = "off"
    /\ todo = << >>

ClosePopupCall ==
    /\ pc = "close_popup"
    /\ ~closeLog.called
    /\ LET r == close_popup(closeEnv)
       IN  closeLog' = [trace |-> r.trace, result |-> r.result, called |-> TRUE]
    /\ UNCHANGED <<driver, pc, page, figures, idx, videos_data, item, itemLog,
                   closeEnv, ret, propagated, lastSave, dlVars, batchVars>>

CloseSpec == CloseOnlyInit /\ [][ClosePopupCall]_vars

(***************************************************************************)
(* process_category and save_videos_data on the file system.               *)
(*                                                                         *)
(* A name is the sequence of its underscore-separated parts: "My_Cat" is   *)
(* <<"My", "Cat">>.  A folder is the path of a directory of the working    *)
(* directory and of a directory inside it.                                 *)
(***************************************************************************)
Categories == {<<"Cat">>, <<"My", "Cat">>}
SubNames == {<<"A">>, <<"B">>}

\* Line 563: f"{category_name}_{subcat['name']}".
FolderName(c, sub) == c \o sub

\* Lines 496-503: with an underscore in the name, split("_", 1) and
\* os.path.join(category, subcategory); without, the name itself.
FolderPath(name) ==
    IF Len(name) >= 2
    THEN [top |-> <<Head(name)>>, sub |-> Tail(name)]
    ELSE [top |-> name, sub |-> << >>]

\* The folder of a subcategory inside the folder of its category, the one
\* that holds the metadata.json the subcategory was read from.
SubFolder(c, sub) == [top |-> c, sub |-> sub]

Folders ==
    {FolderPath(FolderName(c, sub)) : c \in Categories, sub \in SubNames}
        \cup {SubFolder(c, sub) : c \in Categories, sub \in SubNames}

NoContent == [present |-> FALSE, rows |-> << >>]
Content(rows) == [present |-> TRUE, rows |-> rows]

EmptyFolder == [dir |-> FALSE, json |-> NoContent, csv |-> NoContent]
NoFolders == [f \in Folders |-> EmptyFolder]

\* find_video_files, lines 54-64: os.walk of the category folder gives the
\* .json files below it (videos.json; metadata.json is left out).
find_video_files(d, c) == {f \in DOMAIN d : f.top = c /\ d[f].json.present}


(***************************************************************************)
(* save_videos_data, lines 489-524, on the folders.  outcome:              *)
(*   "ok"           both files are written                                 *)
(*   "mkdir_fails"  os.makedirs raises: nothing is changed                 *)
(*   "json_fails"   opening videos.json raises, after the folder was made  *)
(*   "csv_fails"    opening videos.csv raises, after videos.json was       *)
(*                  written                                                *)
(* raised: whether the call raised to its caller.                          *)
(***************************************************************************)
SaveOutcomes == {"ok", "mkdir_fails", "json_fails", "csv_fails"}

SaveToFolder(d, data, name, outcome) ==
    LET w == save_videos_data(data)
        f == FolderPath(name)
    IN  IF ~w.written THEN [fs |-> d, raised |-> FALSE]
        ELSE CASE outcome = "mkdir_fails" -> [fs |-> d, raised |-> TRUE]
               [] outcome = "json_fails" ->
                    [fs |-> [d EXCEPT ![f].dir = TRUE], raised |-> TRUE]
               [] outcome = "csv_fails" ->
                    [fs |-> [d EXCEPT ![f].dir = TRUE, ![f].json = Content(w.json)],
                     raised |-> TRUE]
               [] OTHER ->
                    [fs |-> [d EXCEPT ![f].dir = TRUE, ![f].json = Content(w.json),
                                      ![f].csv = Content(w.csv)],
                     raised |-> FALSE]

\* The lists a scrape can return: records with a truthy prompt or URL.
Rec1 == [video_url |-> OverlayUrl, prompt |-> "p"]
Rec2 == [video_url |-> PyNone, prompt |-> "p"]
ScrapeResults == {<< >>, <<Rec1>>, <<Rec2, Rec1>>}

(***************************************************************************)
(* scrape_single_subcategory as process_category sees it: the driver is    *)
(* set up, and the list found on the page is returned unless the setup or  *)
(* the navigation raised, which the outer handler turns into [].           *)
(***************************************************************************)
ScrapeCall(d, so, navOK, found) ==
    LET s == setup_driver(d, so)
        failed == s.raised \/ ~navOK
    IN  [driver |-> s.driver,
         created |-> IF d = "none" /\ s.driver # "none" THEN 1 ELSE 0,
         videos |-> IF failed THEN << >> ELSE found,
         raised |-> failed /\ OuterHandler # "return_empty"]

\* An entry of sub_categories: its name (<< >> when the key is missing) and
\* whether it has a link.
Entries ==
    {[name |-> n, link |-> TRUE] : n \in SubNames}
        \cup {[name |-> <<"A">>, link |-> FALSE], [name |-> << >>, link |-> TRUE]}

\* subcat['name'] and subcat['link'] (lines 555-556) give a value.
EntryOK(e) == e.name # << >> /\ e.link

\* load_subcategories_from_metadata, lines 526-542: the list of the file,
\* or [] when the file is missing or cannot be read.
Manifests == UNION {[1..n -> Entries] : n \in 0..MaxSubs}

\* Lines 582-590: quit and the reset of self.driver are in one try block,
\* the reset after the quit; q: whether driver.quit() returns or raises.
QuitOutcomes == {"ok", "raises"}

Cleanup(d, q) ==
    IF d = "none" THEN "none"
    ELSE IF q = "ok" THEN "none"
    ELSE d

\* The folders before the call: none, or the files an earlier run saved
\* for subcategory A of a category.
Persisted(f) ==
    [NoFolders EXCEPT ![f] = [dir |-> TRUE, json |-> Content(<<Rec1>>),
                              csv |-> Content(CsvRows(<<Rec1>>))]]

InitialFs ==
    {NoFolders} \cup {Persisted(FolderPath(FolderName(c, <<"A">>))) : c \in Categories}

CatInit ==
    /\ driver = "none"
    /\ pc = "idle"
    /\ page = NoPage
    /\ figures = 0
    /\ idx = 0
    /\ videos_data = << >>
    /\ item = ItemInit
    /\ itemLog = << >>
    /\ closeLog = CloseInit
    /\ closeEnv = NoCloseEnv
    /\ ret = << >>
    /\ propagated = FALSE
    /\ lastSave = NoSave
    /\ dpc = "idle"
    /\ jsonFile = NoFile
    /\ disk = << >>
    /\ di = 0
    /\ updated_videos = << >>
    /\ total_downloaded = 0
    /\ total_failed = 0
    /\ dlLog = << >>
    /\ fetched = {}
    /\ obtained = {}
    /\ prevRun = NoRun
    /\ cpc = "idle"
    /\ category \in Categories
    /\ manifest \in Manifests
    /\ si = 0
    /\ fs \in InitialFs
    /\ subLog = << >>
    /\ created = 0
    /\ catRaised = FALSE
    /\ fpc = "off"
    /\ files = << >>
    /\ fi = 0
    /\ fileLog = << >>
    /\ dlRaised = FALSE
    /\ popup = NoPopup
    /\ rpc = "off"
    /\ todo = << >>

\* Lines 546-552: the manifest is loaded; with no subcategory the call
\* returns, through the cleanup of lines 582-590.
CatStart ==
    /\ cpc = "idle"
    /\ IF manifest = << >>
       THEN /\ \E q \in QuitOutcomes : driver' = Cleanup(driver, q)
            /\ cpc' = "done"
            /\ si' = si
       ELSE /\ driver' = driver
            /\ cpc' = "loop"
            /\ si' = 1
    /\ UNCHANGED <<category, manifest, fs, subLog, created, catRaised>>
    /\ UNCHANGED <<pc, page, figures, idx, videos_data, item, itemLog, closeLog,
                   closeEnv, ret, propagated, lastSave, dlVars, fileVars, popup, runVars>>

(***************************************************************************)
(* Lines 554-576, one entry of the manifest.  The two log lines that read  *)
(* subcat['name'] and subcat['link'] are outside the try block of line     *)
(* 558: their KeyError goes to the handler of line 580, which ends the     *)
(* loop, and the cleanup follows.  Inside the try block the scrape is made *)
(* and a list that is not empty is saved; an exception there is logged and *)
(* the loop continues.                                                     *)
(***************************************************************************)
CatEntry ==
    /\ cpc = "loop"
    /\ si <= Len(manifest)
    /\ LET e == manifest[si]
       IN  IF ~EntryOK(e)
           THEN /\ \E q \in QuitOutcomes : driver' = Cleanup(driver, q)
                /\ cpc' = "done"
                /\ subLog' = Append(subLog, [kind |-> "keyerror", videos |-> << >>,
                                             saved |-> FALSE, raised |-> TRUE])
                /\ UNCHANGED <<si, fs, created>>
           ELSE \E so \in SetupOutcomes, navOK \in BOOLEAN, found \in ScrapeResults,
                   sv \in SaveOutcomes :
                    LET r == ScrapeCall(driver, so, navOK, found)
                        save == ~r.raised /\ r.videos # << >>
                        w == IF save
                             THEN SaveToFolder(fs, r.videos, FolderName(category, e.name), sv)
                             ELSE [fs |-> fs, raised |-> FALSE]
                    IN  /\ driver' = r.driver
                        /\ created' = created + r.created
                        /\ fs' = w.fs
                        /\ subLog' = Append(subLog,
                               [kind |-> "scraped", videos |-> r.videos, saved |-> save,
                                raised |-> r.raised \/ w.raised])
                        /\ si' = si + 1
                        /\ cpc' = cpc
    /\ UNCHANGED <<category, manifest, catRaised>>
    /\ UNCHANGED <<pc, page, figures, idx, videos_data, item, itemLog, closeLog,
                   closeEnv, ret, propagated, lastSave, dlVars, fileVars, popup, runVars>>

\* Lines 578-590: the loop is over; the cleanup.
CatFinish ==
    /\ cpc = "loop"
    /\ si > Len(manifest)
    /\ \E q \in QuitOutcomes : driver' = Cleanup(driver, q)
    /\ cpc' = "done"
    /\ UNCHANGED <<category, manifest, si, fs, subLog, created, catRaised>>
    /\ UNCHANGED <<pc, page, figures, idx, videos_data, item, itemLog, closeLog,
                   closeEnv, ret, propagated, lastSave, dlVars, fileVars, popup, runVars>>

\* save_videos_data called on its own, with any list and any name of the
\* form category_subcategory.
SaveCall ==
    /\ cpc = "idle"
    /\ \E data \in ScrapeResults, c \in Categories, sub \in SubNames,
          sv \in SaveOutcomes :
        LET w == SaveToFolder(fs, data, FolderName(c, sub), sv)
        IN  /\ fs' = w.fs
            /\ subLog' = <<[kind |-> "save", videos |-> data, saved |-> TRUE,
                            raised |-> w.raised]>>
    /\ cpc' = "called"
    /\ UNCHANGED <<category, manifest, si, created, catRaised>>
    /\ UNCHANGED <<scraperVars, dlVars, fileVars, popup, runVars>>

CatNext ==
    \/ CatStart
    \/ CatEntry
    \/ CatFinish
    \/ SaveCall

CategorySpec == CatInit /\ [][CatNext]_vars

(***************************************************************************)
(* run, lines 600-680.  The menu path the input selects:                   *)
(*   "none"            a return before any scrape: no category, an input   *)
(*                     that is no number or out of range, a selected       *)
(*                     category without subcategories                      *)
(*   "all_categories"  choice 0 of the first menu: process_category for    *)
(*                     every category, in sorted order                     *)
(*   "one_category"    a category, then choice 0 of the second menu:       *)
(*                     process_category for it                             *)
(*   "single"          a category, then one subcategory: the scrape and    *)
(*                     the save of lines 667-675                           *)
(* process_category is the three actions CatStart, CatEntry, CatFinish.    *)
(***************************************************************************)
RunPaths == {"none", "all_categories", "one_category", "single"}

\* list_available_categories, lines 592-598: the sorted names of the folders
\* that hold a metadata.json.
CategoryLists == {<<<<"Cat">>>>, <<<<"Cat">>, <<"My", "Cat">>>>}

RunInit ==
    /\ driver = "none"
    /\ pc = "idle"
    /\ page = NoPage
    /\ figures = 0
    /\ idx = 0
    /\ videos_data = << >>
    /\ item = ItemInit
    /\ itemLog = << >>
    /\ closeLog = CloseInit
    /\ closeEnv = NoCloseEnv
    /\ ret = << >>
    /\ propagated = FALSE
    /\ lastSave = NoSave
    /\ dpc = "idle"
    /\ jsonFile = NoFile
    /\ disk = << >>
    /\ di = 0
    /\ updated_videos = << >>
    /\ total_downloaded = 0
    /\ total_failed = 0
    /\ dlLog = << >>
    /\ fetched = {}
    /\ obtained = {}
    /\ prevRun = NoRun
    /\ cpc = "off"
    /\ category = << >>
    /\ manifest = << >>
    /\ si = 0
    /\ fs = NoFolders
    /\ subLog = << >>
    /\ created = 0
    /\ catRaised = FALSE
    /\ fpc = "off"
    /\ files = << >>
    /\ fi = 0
    /\ fileLog = << >>
    /\ dlRaised = FALSE
    /\ popup = NoPopup
    /\ rpc = "idle"
    /\ todo = << >>

\* Lines 602-661: the menus, up to the call the input selects.
RunStart ==
    /\ rpc = "idle"
    /\ \E path \in RunPaths, cats \in CategoryLists, m \in Manifests :
        CASE path = "none" ->
               /\ rpc' = "returned"
               /\ UNCHANGED <<todo, category, manifest, si, cpc>>
          [] path = "all_categories" ->
               /\ rpc' = "category"
               /\ category' = Head(cats)
               /\ todo' = Tail(cats)
               /\ manifest' = m
               /\ cpc' = "idle"
               /\ si' = si
          [] path = "one_category" ->
               /\ m # << >>
               /\ rpc' = "category"
               /\ category' = cats[Len(cats)]
               /\ todo' = << >>
               /\ manifest' = m
               /\ cpc' = "idle"
               /\ si' = si
          [] OTHER ->
               /\ m # << >>
               /\ rpc' = "single"
               /\ category' = cats[Len(cats)]
               /\ todo' = << >>
               /\ manifest' = m
               /\ cpc' = cpc
               /\ si' \in 1..Len(m)
    /\ UNCHANGED <<fs, subLog, created, catRaised>>
    /\ UNCHANGED <<scraperVars, dlVars, fileVars, popup>>

\* Lines 622-624: process_category has returned, the next category.
RunNextCategory ==
    /\ rpc = "category"
    /\ cpc = "done"
    /\ todo # << >>
    /\ category' = Head(todo)
    /\ todo' = Tail(todo)
    /\ manifest' \in Manifests
    /\ cpc' = "idle"
    /\ si' = 0
    /\ subLog' = << >>
    /\ UNCHANGED <<rpc, fs, created, catRaised>>
    /\ UNCHANGED <<scraperVars, dlVars, fileVars, popup>>

\* Lines 625-626 and 652-653: process_category has returned for the last
\* category, run returns.
RunReturn ==
    /\ rpc = "category"
    /\ cpc = "done"
    /\ todo = << >>
    /\ rpc' = "returned"
    /\ UNCHANGED <<todo, catVars>>
    /\ UNCHANGED <<scraperVars, dlVars, fileVars, popup>>

(***************************************************************************)
(* Lines 663-680, the single subcategory: its name and link are read (a    *)
(* KeyError goes to the handler of line 679), the scrape is made and a     *)
(* list that is not empty is saved; then run returns.  Neither this path   *)
(* nor the handlers of lines 677-680 call quit.                            *)
(***************************************************************************)
RunSingle ==
    /\ rpc = "single"
    /\ LET e == manifest[si]
       IN  IF ~EntryOK(e)
           THEN UNCHANGED <<driver, fs, created, subLog>>
           ELSE \E so \in SetupOutcomes, navOK \in BOOLEAN, found \in ScrapeResults,
                   sv \in SaveOutcomes :
                    LET r == ScrapeCall(driver, so, navOK, found)
                        save == ~r.raised /\ r.videos # << >>
                        w == IF save
                             THEN SaveToFolder(fs, r.videos, FolderName(category, e.name), sv)
                             ELSE [fs |-> fs, raised |-> FALSE]
                    IN  /\ driver' = r.driver
                        /\ created' = created + r.created
                        /\ fs' = w.fs
                        /\ subLog' = <<[kind |-> "scraped", videos |-> r.videos,
                                        saved |-> save,
                                        raised |-> r.raised \/ w.raised]>>
    /\ rpc' = "returned"
    /\ UNCHANGED <<todo, cpc, category, manifest, si, catRaised>>
    /\ UNCHANGED <<pc, page, figures, idx, videos_data, item, itemLog, closeLog,
                   closeEnv, ret, propagated, lastSave, dlVars, fileVars, popup>>

RunNext ==
    \/ RunStart
    \/ CatStart
    \/ CatEntry
    \/ CatFinish
    \/ RunNextCategory
    \/ RunReturn
    \/ RunSingle

RunSpec == RunInit /\ [][RunNext]_vars

(***************************************************************************)
(* download_category_videos over the record files of a category folder.    *)
(*                                                                         *)
(* A record file is what json.load makes of it (kind) with its records,    *)
(* and the videos/ folder beside it (disk).  kind:                         *)
(*   "list"        a JSON array of records                                 *)
(*   "dict"        a JSON object, the records under 'videos'               *)
(*   "scalar"      a JSON value that is neither (a number, a string,       *)
(*                 null): .get raises AttributeError                       *)
(*   "malformed"   json.load raises                                        *)
(*   "unreadable"  open raises                                             *)
(***************************************************************************)
FileRecordLists ==
    {<< >>, <<ScrapedRecord(UrlA)>>, <<ScrapedRecord(PyNone), ScrapedRecord(UrlBin)>>}

RecordFiles ==
    [kind : {"list", "dict"}, videos : FileRecordLists, disk : {EmptyDisk}]
        \cup [kind : {"scalar", "malformed", "unreadable"}, videos : {<< >>},
              disk : {EmptyDisk}]

\* Lines 171-215 over the records from the k-th on: the records to write
\* back, the videos/ folder after them, and what they add to the counters.
RECURSIVE ProcessRecords(_, _, _, _)
ProcessRecords(videos, d, outs, k) ==
    IF k > Len(videos)
    THEN [videos |-> << >>, disk |-> d, downloaded |-> 0, failed |-> 0]
    ELSE LET r == ProcessVideo(videos[k], d, outs[k])
             rest == ProcessRecords(videos, r.disk, outs, k + 1)
         IN  [videos |-> <<r.video>> \o rest.videos,
              disk |-> rest.disk,
              downloaded |-> rest.downloaded + (IF r.kind = "ok" THEN 1 ELSE 0),
              failed |-> rest.failed
                           + (IF r.kind \in {"failed", "error"} THEN 1 ELSE 0)]

\* Lines 224-225: the file is opened for writing and dumped; "open_fails"
\* leaves it as it was, "dump_fails" leaves it truncated.
WriteOutcomes == {"ok", "open_fails", "dump_fails"}

(***************************************************************************)
(* Lines 147-227, the try block of one record file: the videos/ folder is  *)
(* made (mkdirOK), the file loaded, its records processed and the file     *)
(* written back (wr).  caught: an exception reached the handler of line    *)
(* 229.                                                                    *)
(***************************************************************************)
ProcessFile(file, mkdirOK, outs, wr) ==
    IF ~mkdirOK \/ file.kind \in {"scalar", "malformed", "unreadable"}
    THEN [file |-> file, caught |-> TRUE, rewritten |-> FALSE,
          downloaded |-> 0, failed |-> 0]
    ELSE LET r == ProcessRecords(file.videos, file.disk, outs, 1)
         IN  CASE wr = "ok" ->
                    [file |-> [file EXCEPT !.videos = r.videos, !.disk = r.disk],
                     caught |-> FALSE, rewritten |-> TRUE,
                     downloaded |-> r.downloaded, failed |-> r.failed]
               [] wr = "open_fails" ->
                    [file |-> [file EXCEPT !.disk = r.disk],
                     caught |-> TRUE, rewritten |-> FALSE,
                     downloaded |-> r.downloaded, failed |-> r.failed]
               [] OTHER ->
                    [file |-> [file EXCEPT !.kind = "malformed", !.videos = << >>,
                                           !.disk = r.disk],
                     caught |-> TRUE, rewritten |-> FALSE,
                     downloaded |-> r.downloaded, failed |-> r.failed]

\* The handler of one file passing the exception on to the handler of the
\* call (line 235), which ends the loop.
FileHandlerAborts == "abort"

\* The handler of line 229: the exception is logged, and 'continue'.
FileHandler == "continue"

FilesInit ==
    /\ driver = "none"
    /\ pc = "idle"
    /\ page = NoPage
    /\ figures = 0
    /\ idx = 0
    /\ videos_data = << >>
    /\ item = ItemInit
    /\ itemLog = << >>
    /\ closeLog = CloseInit
    /\ closeEnv = NoCloseEnv
    /\ ret = << >>
    /\ propagated = FALSE
    /\ lastSave = NoSave
    /\ dpc = "idle"
    /\ jsonFile = NoFile
    /\ disk = << >>
    /\ di = 0
    /\ updated_videos = << >>
    /\ total_downloaded = 0
    /\ total_failed = 0
    /\ dlLog = << >>
    /\ fetched = {}
    /\ obtained = {}
    /\ prevRun = NoRun
    /\ cpc = "off"
    /\ category = << >>
    /\ manifest = << >>
    /\ si = 0
    /\ fs = << >>
    /\ subLog = << >>
    /\ created = 0
    /\ catRaised = FALSE
    /\ fpc = "idle"
    /\ files \in UNION {[1..n -> RecordFiles] : n \in 0..MaxFiles}
    /\ fi = 0
    /\ fileLog = << >>
    /\ dlRaised = FALSE
    /\ popup = NoPopup
    /\ rpc = "off"
    /\ todo = << >>

\* Lines 132-144: the record files are found; with none the call returns.
FilesStart ==
    /\ fpc = "idle"
    /\ fpc' = IF files = << >> THEN "done" ELSE "files"
    /\ fi' = IF files = << >> THEN fi ELSE 1
    /\ total_downloaded' = 0
    /\ total_failed' = 0
    /\ UNCHANGED <<files, fileLog, dlRaised>>
    /\ UNCHANGED <<scraperVars, dpc, jsonFile, disk, di, updated_videos, dlLog,
                   fetched, obtained, prevRun, catVars, popup, runVars>>

\* Lines 146-231: one record file.
FilesStep ==
    /\ fpc = "files"
    /\ fi <= Len(files)
    /\ \E mkdirOK \in BOOLEAN, wr \in WriteOutcomes,
          outs \in [1..Len(files[fi].videos) -> FetchOutcomes] :
        LET r == ProcessFile(files[fi], mkdirOK, outs, wr)
        IN  /\ files' = [files EXCEPT ![fi] = r.file]
            /\ total_downloaded' = total_downloaded + r.downloaded
            /\ total_failed' = total_failed + r.failed
            /\ fileLog' = Append(fileLog,
                   [read |-> files[fi], mkdirOK |-> mkdirOK, wr |-> wr,
                    caught |-> r.caught, rewritten |-> r.rewritten])
            /\ IF r.caught /\ FileHandler # "continue"
               THEN fpc' = "done" /\ fi' = fi
               ELSE fpc' = fpc /\ fi' = fi + 1
    /\ dlRaised' = FALSE
    /\ UNCHANGED <<scraperVars, dpc, jsonFile, disk, di, updated_videos, dlLog,
                   fetched, obtained, prevRun, catVars, popup, runVars>>

\* Line 233: the loop is over, the counters are logged.
FilesEnd ==
    /\ fpc = "files"
    /\ fi > Len(files)
    /\ fpc' = "done"
    /\ UNCHANGED <<files, fi, fileLog, dlRaised>>
    /\ UNCHANGED <<scraperVars, dlVars, catVars, popup, runVars>>

FilesNext ==
    \/ FilesStart
    \/ FilesStep
    \/ FilesEnd

FilesSpec == FilesInit /\ [][FilesNext]_vars

(***************************************************************************)
(* extract_prompt_from_popup on its own: every overlay.                    *)
(***************************************************************************)
Popups == [modal : BOOLEAN, src : OverlaySrcs, copy : CopyTexts,
           sibling : NearTexts, fallback : NearTexts]

ExtractOnlyInit ==
    /\ driver = "live"
    /\ pc = "extract_popup"
    /\ page = NoPage
    /\ figures = 0
    /\ idx = 0
    /\ videos_data = << >>
    /\ item = ItemInit
    /\ itemLog = << >>
    /\ closeLog = CloseInit
    /\ closeEnv = NoCloseEnv
    /\ ret = << >>
    /\ propagated = FALSE
    /\ lastSave = NoSave
    /\ dpc = "idle"
    /\ jsonFile = NoFile
    /\ disk = << >>
    /\ di = 0
    /\ updated_videos = << >>
    /\ total_downloaded = 0
    /\ total_failed = 0
    /\ dlLog = << >>
    /\ fetched = {}
    /\ obtained = {}
    /\ prevRun = NoRun
    /\ cpc = "off"
    /\ category = << >>
    /\ manifest = << >>
    /\ si = 0
    /\ fs = << >>
    /\ subLog = << >>
    /\ created = 0
    /\ catRaised = FALSE
    /\ fpc = "off"
    /\ files = << >>
    /\ fi = 0
    /\ fileLog = << >>
    /\ dlRaised = FALSE
    /\ popup \in Popups
    /\ rpc = "off"
    /\ todo = << >>

ExtractCall ==
    /\ pc = "extract_popup"
    /\ item.extracts = 0
    /\ item' = [item EXCEPT
                   !.extracts = 1,
                   !.extracted_data =
                       extract_prompt_from_popup(popup.modal, popup.src, popup.copy,
                                                 popup.sibling, popup.fallback)]
    /\ UNCHANGED <<driver, pc, page, figures, idx, videos_data, itemLog, closeLog,
                   closeEnv, ret, propagated, lastSave, dlVars, batchVars>>

ExtractSpec == ExtractOnlyInit /\ [][ExtractCall]_vars

(***************************************************************************)
(* Properties of scrape_single_subcategory.                                *)
(***************************************************************************)
InLoop == pc \in {"item", "extract", "close", "next"}
InItem == pc \in {"extract", "close", "next"}
Returned == pc \in {"returned", "saved"}

IsPrefix(a, b) == Len(a) <= Len(b) /\ a = SubSeq(b, 1, Len(a))

\* The records of the iterations that appended one, in order.
RECURSIVE Recorded(_)
Recorded(log) ==
    IF log = << >> THEN << >>
    ELSE LET n == Len(log)
             front == Recorded(SubSeq(log, 1, n - 1))
         IN  IF log[n].appended THEN Append(front, log[n].rec) ELSE front

\* C1: scrape_single_subcategory never raises to its caller and returns a
\* list; an exception in one iteration leaves the records appended before it
\* in the list, every figure is still processed, and the list returned holds
\* the record of every iteration that appended one.
C1_NeverRaises ==
    /\ ~propagated
    /\ pc = "item" => videos_data = Recorded(itemLog)
    /\ InItem => /\ item.before = Recorded(itemLog)
                 /\ IsPrefix(item.before, videos_data)
                 /\ item.raised => videos_data = item.before
    /\ Returned => IF figures = 0 THEN ret = << >>
                   ELSE Len(itemLog) = figures /\ ret = Recorded(itemLog)

\* An exception in the first iteration, a record from the second, returned.
C1_Witness ==
    /\ pc = "returned"
    /\ Len(itemLog) = 2
    /\ itemLog[1].raised /\ itemLog[1].closes = 1
    /\ itemLog[2].appended
    /\ ret = <<itemLog[2].rec>>

\* C2: on a loaded page where neither selector matches an element the call
\* returns the empty list without raising, and no figure is processed: no
\* click, no extraction, no close_popup.
C2_EmptyPage ==
    (page.loaded /\ page.primary = 0 /\ page.loose = 0) =>
        /\ Returned
        /\ ret = << >>
        /\ ~propagated
        /\ figures = 0
        /\ itemLog = << >>
        /\ item = ItemInit
        /\ ~closeLog.called

C2_Witness ==
    /\ pc = "returned"
    /\ page.loaded /\ page.primary = 0 /\ page.loose = 0
    /\ ret = << >>

\* C3: a figure without an 'a' element gets no click, no extraction and no
\* record, and the loop goes on to the next figure: the figures are taken
\* one after the other and all of them have been taken when the call returns.
C3_NoLinkSkipped ==
    /\ (pc = "next" /\ ~item.link) =>
           /\ item.tries = << >>
           /\ ~item.clicked
           /\ item.extracts = 0
           /\ item.closes = 0
           /\ ~item.appended
           /\ videos_data = item.before
    /\ \A i \in 1..Len(itemLog) :
           ~itemLog[i].link =>
               ~itemLog[i].clicked /\ ~itemLog[i].appended /\ itemLog[i].extracts = 0
    /\ InLoop => idx = Len(itemLog) + 1
    /\ (Returned /\ figures > 0) => Len(itemLog) = figures

\* The first figure has no link, the second is clicked and recorded.
C3_Witness ==
    /\ pc = "returned"
    /\ Len(itemLog) = 2
    /\ ~itemLog[1].link
    /\ itemLog[2].link /\ itemLog[2].clicked /\ itemLog[2].appended
    /\ Len(ret) = 1

\* C17: on a loaded page where the primary selector matches no element and
\* 'figure' matches at least one, and no call of the location step fails
\* otherwise, the elements that 'figure' matches are the figures processed;
\* the call returns empty at the location step only when 'figure' matches
\* none either.
C17_LooseSelectorUsed ==
    (page.loaded /\ ~page.locErr /\ page.primary = 0) =>
        /\ page.loose > 0 => figures = page.loose
        /\ (Returned /\ figures = 0) => page.loose = 0

\* The record appended by the current iteration.
LastRecord == videos_data[Len(videos_data)]

\* C4 as stated: whenever the overlay URL is not None the record carries it,
\* and the inline URL is used only when the overlay URL is None.
C4_OverlayNonNullWins ==
    (pc = "close" /\ item.appended) =>
        /\ item.extracted_data.video_url # PyNone =>
               LastRecord.video_url = item.extracted_data.video_url
        /\ (LastRecord.video_url = item.video_url
             /\ item.video_url # item.extracted_data.video_url) =>
               item.extracted_data.video_url = PyNone

\* C4 amended: whenever the overlay URL is neither None nor the empty string
\* the record carries it, whatever the inline URL; the inline URL is used
\* exactly when the overlay URL is None or the empty string.
C4_OverlayTruthyWins ==
    (pc = "close" /\ item.appended) =>
        /\ TruthyUrl(item.extracted_data.video_url) =>
               LastRecord.video_url = item.extracted_data.video_url
        /\ ~TruthyUrl(item.extracted_data.video_url) =>
               LastRecord.video_url = item.video_url
        /\ LastRecord.prompt = item.extracted_data.prompt

\* Both URLs were read, and they differ.
C4_Witness ==
    /\ pc = "close"
    /\ item.appended
    /\ item.video_url = InlineUrl
    /\ item.extracted_data.video_url = OverlayUrl
    /\ LastRecord.video_url = OverlayUrl

HasField(r) == r.video_url # PyNone \/ r.prompt # NoneStr

\* C5: every record of the list, of the value returned and of what
\* save_videos_data writes has a video_url or a prompt that is not None; an
\* item whose extraction gave neither appends nothing.
C5_RecordsHaveData ==
    /\ \A i \in 1..Len(videos_data) : HasField(videos_data[i])
    /\ \A i \in 1..Len(ret) : HasField(ret[i])
    /\ \A i \in 1..Len(lastSave.json) : HasField(lastSave.json[i])
    /\ lastSave.written => lastSave.json = ret
    /\ (pc = "close" /\ item.extracts = 1
          /\ (item.extracted_data.none \/ ~HasField(item.extracted_data))) =>
           ~item.appended /\ videos_data = item.before

\* One item was dropped for want of data, one was recorded, and the list was
\* saved.
C5_Witness ==
    /\ pc = "saved"
    /\ lastSave.written
    /\ Len(itemLog) = 2
    /\ itemLog[1].extracts = 1 /\ ~itemLog[1].appended
    /\ itemLog[2].appended
    /\ Len(lastSave.json) = 1

\* The extraction of the current iteration has been made.
Extracted == pc = "close" /\ item.clicked /\ item.extracts = 1

NonNullField(d) == ~d.none /\ (d.video_url # PyNone \/ d.prompt # NoneStr)

NonEmptyField(d) ==
    ~d.none /\ (d.video_url \notin {PyNone, PyEmpty} \/ d.prompt \notin {NoneStr, EmptyStr})

\* C18 as stated: for a clicked item a record is appended if and only if
\* the extraction gave a video_url or a prompt that is not None.
C18_AppendIffNonNull ==
    Extracted => (item.appended <=> NonNullField(item.extracted_data))

\* C18 amended: for a clicked item a record is appended if and only if the
\* extraction gave a video_url or a prompt that is neither None nor the
\* empty string; otherwise the list is left as it was, even if an inline
\* URL was read from the figure.
C18_AppendIffNonEmpty ==
    Extracted =>
        /\ item.appended <=> NonEmptyField(item.extracted_data)
        /\ item.appended => Len(videos_data) = Len(item.before) + 1
        /\ ~item.appended => videos_data = item.before

\* The overlay was found but gave neither field; the inline URL of the
\* figure was read; nothing is appended.
C18_Witness ==
    /\ Extracted
    /\ item.video_url = InlineUrl
    /\ ~item.extracted_data.none
    /\ item.extracted_data.video_url = PyNone
    /\ item.extracted_data.prompt = NoneStr
    /\ ~item.appended
    /\ videos_data = item.before

\* C19: for a clicked item close_popup is called exactly once, after the
\* extraction and before the next figure is taken, whether or not the
\* extraction gave a record; for an iteration ended by an exception it is
\* called once as well; an item that was not clicked and did not raise gets
\* no call.
C19_ClosedOncePerItem ==
    /\ pc = "extract" => (item.clicked /\ item.extracts = 0 /\ item.closes = 0)
    /\ pc = "close" =>
           /\ item.closes = 0
           /\ (item.clicked /\ item.extracts = 1) \/ (item.raised /\ item.extracts = 0)
    /\ pc = "next" =>
           /\ (item.clicked \/ item.raised) => (item.closes = 1 /\ closeLog.called)
           /\ item.clicked => item.extracts = 1
           /\ ~(item.clicked \/ item.raised) => (item.closes = 0 /\ ~closeLog.called)
    /\ \A i \in 1..Len(itemLog) :
           itemLog[i].closes = IF itemLog[i].clicked \/ itemLog[i].raised THEN 1 ELSE 0

\* A clicked item whose extraction gave no record, then an iteration ended
\* by an exception: one call each.
C19_Witness ==
    /\ pc = "returned"
    /\ Len(itemLog) = 2
    /\ itemLog[1].clicked /\ itemLog[1].extracts = 1 /\ ~itemLog[1].appended
    /\ itemLog[1].closes = 1
    /\ itemLog[2].raised /\ ~itemLog[2].clicked
    /\ itemLog[2].closes = 1

ClickOrder == <<"click", "js", "actions">>

\* C21: on a figure with a link the click methods are tried in the order
\* regular click, JavaScript click, ActionChains click; a method is tried
\* only if those before it raised, none is tried after the first that
\* succeeds, and when all three raise the figure is left without extraction,
\* close_popup or record, and the loop goes on with the next figure.
C21_ClickOrder ==
    /\ (InItem /\ item.could = << >>) => item.tries = << >>
    /\ (InItem /\ item.could # << >>) =>
           LET n == Len(item.tries)
           IN  /\ n \in 1..3
               /\ item.tries = SubSeq(ClickOrder, 1, n)
               /\ \A k \in 1..(n - 1) : ~item.could[k]
               /\ item.clicked = item.could[n]
               /\ ~item.clicked => n = 3
    /\ (pc = "next" /\ item.could # << >> /\ ~item.clicked) =>
           /\ item.extracts = 0
           /\ item.closes = 0
           /\ ~item.appended
           /\ videos_data = item.before
    /\ pc = "extract" => item.clicked
    /\ InLoop => idx = Len(itemLog) + 1
    /\ Returned => Len(itemLog) = figures

\* All three methods raised on the first figure; the second was clicked by
\* the JavaScript click and recorded.
C21_Witness ==
    /\ pc = "close"
    /\ Len(itemLog) = 1
    /\ itemLog[1].link /\ ~itemLog[1].clicked /\ ~itemLog[1].raised
    /\ itemLog[1].extracts = 0
    /\ item.tries = <<"click", "js">>
    /\ item.could = <<FALSE, TRUE, TRUE>>
    /\ item.clicked /\ item.appended

(***************************************************************************)
(* Properties of close_popup (CloseSpec).                                  *)
(***************************************************************************)
Succeeds(k) == StepSucceeds(CloseSteps[k], closeEnv)

\* C6: the steps are tried in the order body, positions, buttons, escape,
\* overlay, back; a step is tried only if every step before it failed; the
\* first step that succeeds ends the call with True, and the call gives
\* False exactly when all six fail.  In particular a body click that
\* succeeds is the only step made.
C6_CloseChain ==
    closeLog.called =>
        LET t == closeLog.trace
            n == Len(closeLog.trace)
        IN  /\ n >= 1 /\ n <= Len(CloseSteps)
            /\ t = SubSeq(CloseSteps, 1, n)
            /\ \A k \in 1..(n - 1) : ~Succeeds(k)
            /\ closeLog.result = Succeeds(n)
            /\ ~closeLog.result => n = Len(CloseSteps)
            /\ closeLog.result = (\E k \in 1..Len(CloseSteps) : Succeeds(k))
            /\ closeEnv.body => t = <<"body">> /\ closeLog.result

\* The body click fails, the position clicks succeed: two steps, True.
C6_Witness ==
    /\ closeLog.called
    /\ ~closeEnv.body /\ closeEnv.win /\ closeEnv.pos /\ closeEnv.esc
    /\ closeLog.trace = <<"body", "positions">>
    /\ closeLog.result

(***************************************************************************)
(* Properties of extract_prompt_from_popup (ExtractSpec).                  *)
(***************************************************************************)
\* C20: extract_prompt_from_popup gives None exactly when the overlay is
\* not located; when it is located the result is a pair whose video_url is
\* the src of the overlay's video element, None when there is no such
\* element, and whose prompt is None exactly when neither the copy button
\* nor a fallback element is found; no failed lookup inside the overlay
\* makes the result None.
C20_NoneOnlyWithoutOverlay ==
    (pc = "extract_popup" /\ item.extracts = 1) =>
        LET d == item.extracted_data
        IN  /\ d.none <=> ~popup.modal
            /\ popup.modal =>
                   /\ d.video_url = popup.src
                   /\ d.prompt = NoneStr <=>
                          (popup.copy = Absent /\ popup.fallback = Absent)
                   /\ popup.copy \notin {Absent, EmptyStr, "true"} =>
                          d.prompt = popup.copy

\* The overlay is there and holds neither a video nor a prompt: a pair of
\* two None.
C20_Witness ==
    /\ pc = "extract_popup"
    /\ item.extracts = 1
    /\ popup.modal
    /\ popup.src = PyNone /\ popup.copy = Absent /\ popup.fallback = Absent
    /\ ~item.extracted_data.none
    /\ item.extracted_data.video_url = PyNone
    /\ item.extracted_data.prompt = NoneStr

(***************************************************************************)
(* Properties of the downloader (DownloaderSpec).                          *)
(***************************************************************************)
HasLocal(v) == v.local_file_path # NoPath \/ v.filename # NoName

SameLocal(v, w) ==
    v.local_file_path = w.local_file_path /\ v.filename = w.filename

\* The records as they were when the run read them.
ReadVideos == IF dpc = "rec" THEN jsonFile.videos ELSE prevRun.videos

FetchFailed(l) == l.fetch /\ l.outcome # "ok"

\* C7 as stated: whatever the fetches of one run did, the next run requests
\* no file that the run before obtained, and leaves local_file_path and
\* filename of every record as that run left them.
C7_SecondRunChangesNothing ==
    /\ (dpc = "rec" /\ prevRun.done >= 1) => fetched \cap prevRun.obtained = {}
    /\ (dpc = "idle" /\ prevRun.done = 2) =>
           /\ Len(jsonFile.videos) = Len(prevRun.videos)
           /\ \A i \in 1..Len(jsonFile.videos) :
                  SameLocal(jsonFile.videos[i], prevRun.videos[i])

\* C7 amended: whatever the fetches of one run did, the next run requests no
\* file that the run before fetched completely or found present, and every
\* record that carried local_file_path and filename after that run carries
\* the same values after the next; a record whose fetch failed may gain them.
C7_SecondRunKeepsLocal ==
    /\ (dpc = "rec" /\ prevRun.done >= 1) => fetched \cap prevRun.obtained = {}
    /\ (dpc = "idle" /\ prevRun.done = 2) =>
           /\ Len(jsonFile.videos) = Len(prevRun.videos)
           /\ \A i \in 1..Len(jsonFile.videos) :
                  HasLocal(prevRun.videos[i]) =>
                      SameLocal(jsonFile.videos[i], prevRun.videos[i])

\* A second run over a file whose first record was fetched by the first run:
\* nothing is requested and the record keeps its fields.
C7_Witness ==
    /\ dpc = "idle"
    /\ prevRun.done = 2
    /\ Len(jsonFile.videos) >= 1
    /\ HasLocal(prevRun.videos[1])
    /\ disk[prevRun.videos[1].filename].state = "full"
    /\ dlLog[1].kind = "exists"
    /\ fetched = {}
    /\ SameLocal(jsonFile.videos[1], prevRun.videos[1])

\* C8: for a record whose target path exists when the record is reached,
\* download_video is not called, the file keeps its content, and the record
\* gets local_file_path and filename.
C8_ExistingKept ==
    \A i \in 1..Len(dlLog) :
        dlLog[i].existed =>
            /\ dlLog[i].kind = "exists"
            /\ ~dlLog[i].fetch
            /\ disk[dlLog[i].name] = dlLog[i].before
            /\ updated_videos[i].local_file_path = SavePath(dlLog[i].name)
            /\ updated_videos[i].filename = dlLog[i].name

\* A file that was there before the first run: kept, and the record enriched
\* in the file written back.
C8_Witness ==
    /\ dpc = "idle"
    /\ prevRun.done = 1
    /\ Len(dlLog) >= 1
    /\ dlLog[1].existed
    /\ dlLog[1].before = PreExisting
    /\ disk[dlLog[1].name] = PreExisting
    /\ jsonFile.videos[1].local_file_path = SavePath(Filename(UrlA))

\* The file name of C9: the last segment without its extension, then the
\* normalized extension.
ClaimedStem(url) ==
    IF Len(url.seg) >= 2 THEN SubSeq(url.seg, 1, Len(url.seg) - 1) ELSE url.seg

ClaimedFilename(url) == Append(ClaimedStem(url), get_file_extension(url))

\* C9: the file name derived for a record is the last segment of the URL
\* path without its extension, followed by mp4, webm or mov when the path
\* ends with it and by mp4 otherwise; after a successful fetch the record's
\* local_file_path is the videos/ folder joined with that name.
C9_FilenameFromSegment ==
    \A i \in 1..Len(dlLog) :
        dlLog[i].kind \in {"ok", "exists", "failed"} =>
            /\ dlLog[i].name = ClaimedFilename(updated_videos[i].video_url)
            /\ dlLog[i].kind = "ok" =>
                   /\ updated_videos[i].local_file_path =
                          SavePath(ClaimedFilename(updated_videos[i].video_url))
                   /\ updated_videos[i].filename =
                          ClaimedFilename(updated_videos[i].video_url)

\* C10: a record whose fetch fails is counted in total_failed and is written
\* back as it was read, without local_file_path or filename; the records
\* after it are processed and the file written back holds them all.
C10_FailedFetch ==
    /\ Len(dlLog) = Len(updated_videos)
    /\ total_failed =
           Cardinality({i \in 1..Len(dlLog) :
                            FetchFailed(dlLog[i]) \/ dlLog[i].kind = "error"})
    /\ \A i \in 1..Len(dlLog) :
           FetchFailed(dlLog[i]) =>
               /\ dlLog[i].kind = "failed"
               /\ ~HasLocal(updated_videos[i])
               /\ updated_videos[i] = ReadVideos[i]
    /\ (dpc = "idle" /\ prevRun.done >= 1) =>
           /\ jsonFile.videos = updated_videos
           /\ Len(dlLog) = Len(prevRun.videos)

\* The first fetch fails, the second succeeds, the file has been written.
C10_Witness ==
    /\ dpc = "idle"
    /\ Len(dlLog) = 2
    /\ FetchFailed(dlLog[1])
    /\ dlLog[2].kind = "ok"
    /\ total_failed = 1
    /\ ~HasLocal(jsonFile.videos[1])
    /\ jsonFile.videos[1] = prevRun.videos[1]
    /\ HasLocal(jsonFile.videos[2])

(***************************************************************************)
(* Properties of process_category and save_videos_data (CategorySpec).     *)
(***************************************************************************)
\* C11: a call of save_videos_data with an empty list, and an entry of
\* process_category whose scrape returned an empty list, leave every folder
\* as it was: no directory is made, no videos.json and no videos.csv is
\* written, and the files saved before keep their content.
C11_EmptyWritesNothing ==
    [][(/\ Len(subLog') = Len(subLog) + 1
        /\ subLog'[Len(subLog')].kind \in {"scraped", "save"}
        /\ subLog'[Len(subLog')].videos = << >>) => fs' = fs]_vars

\* Subcategory A of Cat had files; its scrape gave nothing and they are as
\* they were, while subcategory B was scraped and saved.
C11_Witness ==
    /\ cpc = "done"
    /\ category = <<"Cat">>
    /\ Len(subLog) = 2
    /\ manifest[1].name = <<"A">> /\ manifest[2].name = <<"B">>
    /\ subLog[1].kind = "scraped" /\ subLog[1].videos = << >>
    /\ subLog[2].saved /\ ~subLog[2].raised
    /\ fs[SubFolder(<<"Cat">>, <<"A">>)] = Persisted(SubFolder(<<"Cat">>, <<"A">>))[SubFolder(<<"Cat">>, <<"A">>)]
    /\ fs[SubFolder(<<"Cat">>, <<"B">>)].json.present

\* The rows videos.csv has to hold for the records of videos.json: their
\* video_url and prompt, None written as the empty string.
Mirrors(folder) ==
    /\ folder.csv.present = folder.json.present
    /\ folder.csv.rows = CsvRows(folder.json.rows)

\* C12: in every folder videos.csv and videos.json hold the same records in
\* the same order: both are there or neither is, they have the same number
\* of rows, and row i of the CSV carries the video_url and the prompt of
\* record i of the JSON.
C12_CsvMirrorsJson == \A f \in DOMAIN fs : Mirrors(fs[f])

\* The entries of the manifest whose list was saved, both files written.
SavedEntries ==
    {i \in 1..Len(subLog) :
        subLog[i].kind = "scraped" /\ subLog[i].saved /\ ~subLog[i].raised}

\* C13: the records of every subcategory that process_category saved are in
\* videos.json and videos.csv of the folder {category}/{subcategory}, inside
\* the category folder that holds the metadata.json, and find_video_files
\* on that category folder gives the file.
C13_SavedInCategoryFolder ==
    \A i \in SavedEntries :
        LET f == SubFolder(category, manifest[i].name)
        IN  /\ fs[f].dir
            /\ fs[f].json.present
            /\ fs[f].csv.present
            /\ f \in find_video_files(fs, category)
            /\ i = Len(subLog) => fs[f].json.rows = subLog[i].videos

(***************************************************************************)
(* Properties of download_category_videos over several files (FilesSpec).  *)
(***************************************************************************)
\* The file could be loaded and written back.
Sound(l) == l.read.kind \in {"list", "dict"} /\ l.mkdirOK /\ l.wr = "ok"

\* C14: an exception while one record file is processed (the file cannot be
\* opened, is not JSON, holds a value that is neither list nor object, or
\* cannot be written back) is caught for that file: the call does not
\* raise, every file found is taken in turn, and every file that can be
\* loaded and written is rewritten whatever happened to the files before it.
C14_FileFailureConfined ==
    /\ ~dlRaised
    /\ fpc = "files" => fi = Len(fileLog) + 1
    /\ fpc = "done" => Len(fileLog) = Len(files)
    /\ \A i \in 1..Len(fileLog) :
           /\ fileLog[i].rewritten = Sound(fileLog[i])
           /\ fileLog[i].caught = ~Sound(fileLog[i])
           /\ fileLog[i].read.kind \in {"scalar", "malformed", "unreadable"} =>
                  files[i] = fileLog[i].read
           /\ Sound(fileLog[i]) =>
                  /\ files[i].kind = fileLog[i].read.kind
                  /\ Len(files[i].videos) = Len(fileLog[i].read.videos)

\* The first file is not JSON, the second is rewritten with a record that
\* was fetched.
C14_Witness ==
    /\ fpc = "done"
    /\ Len(fileLog) = 2
    /\ fileLog[1].read.kind = "malformed" /\ fileLog[1].caught
    /\ fileLog[2].rewritten
    /\ Len(files[2].videos) = 1
    /\ files[2].videos[1].filename = Filename(UrlA)
    /\ total_downloaded = 1

(***************************************************************************)
(* Further properties of process_category (CategorySpec).                  *)
(***************************************************************************)
\* C15: during one call of process_category at most one session is created,
\* none before the first subcategory needs it, and once the call has
\* returned (after the loop, after the early return for an empty manifest,
\* or after an error) self.driver is None.
C15_OneSessionTornDown ==
    /\ created <= 1
    /\ (cpc = "loop" /\ si = 1) => (created = 0 /\ driver = "none")
    /\ cpc = "done" => driver = "none"

\* The entries of the manifest that were scraped.
ScrapedEntries == {i \in 1..Len(subLog) : subLog[i].kind = "scraped"}

\* C16: once process_category has returned it has not raised, and every
\* entry of the manifest that has a name and a link was scraped, whatever
\* failed for the entries before it (navigation, scrape, save, or an entry
\* without name or link).
C16_EntryFailureConfined ==
    /\ ~catRaised
    /\ cpc = "done" =>
           \A i \in 1..Len(manifest) : EntryOK(manifest[i]) => i \in ScrapedEntries

(***************************************************************************)
(* Further properties of the downloader (DownloaderSpec).                  *)
(***************************************************************************)
\* The file as the last run read it was a list, or an object with 'videos'.
ReadAsRecordFile == prevRun.file.shape = "list" \/ prevRun.file.key

\* C22: the file written back has the shape of the file read, a bare list
\* or an object with its 'videos' key and its other fields; it holds as
\* many records, in the same order, each with the video_url and the prompt
\* it had; a record differs from the one read at most by local_file_path
\* and filename, which are added and never changed.  (An object read
\* without 'videos' is written back with an empty list under that key.)
C22_RewritePreserves ==
    (dpc = "idle" /\ prevRun.done >= 1) =>
        /\ jsonFile.shape = prevRun.file.shape
        /\ jsonFile.other = prevRun.file.other
        /\ ReadAsRecordFile => jsonFile.key = prevRun.file.key
        /\ ~ReadAsRecordFile => jsonFile.videos = << >>
        /\ Len(jsonFile.videos) = Len(prevRun.file.videos)
        /\ \A i \in 1..Len(jsonFile.videos) :
               LET new == jsonFile.videos[i]
                   old == prevRun.file.videos[i]
               IN  /\ new.video_url = old.video_url
                   /\ new.prompt = old.prompt
                   /\ HasLocal(old) => new = old
                   /\ new # old => new = WithLocal(old, new.filename)

\* An object with two records and other fields: the first record was
\* fetched and enriched, the second, without URL, is as it was.
C22_Witness ==
    /\ dpc = "idle"
    /\ prevRun.done = 1
    /\ prevRun.file.shape = "dict" /\ prevRun.file.key
    /\ jsonFile.shape = "dict" /\ jsonFile.other = "meta"
    /\ Len(jsonFile.videos) = 2
    /\ ~HasLocal(prevRun.file.videos[1]) /\ HasLocal(jsonFile.videos[1])
    /\ jsonFile.videos[2].video_url = PyNone
    /\ jsonFile.videos[2] = prevRun.file.videos[2]

\* C23: a fetch that fails, before the response or while streaming, leaves
\* no file at the target path, so that the next run requests the file
\* again; a record carries local_file_path only if its file was there
\* before the first run or was fetched completely.
C23_FailedLeavesNoFile ==
    /\ (dlLog # << >> /\ FetchFailed(dlLog[Len(dlLog)])) =>
           disk[dlLog[Len(dlLog)].name] = Missing
    /\ \A i \in 1..Len(updated_videos) :
           HasLocal(updated_videos[i]) =>
               disk[updated_videos[i].filename].state \in {"pre", "full"}

\* C25: in one record file two records with different video_url never
\* carry the same local_file_path, and the file a record points to was
\* there before the first run or holds what was fetched from the record's
\* own URL, also when two URLs have the same last segment or differ only
\* after the first dot of it.
C25_DistinctLocalPaths ==
    /\ \A i, j \in 1..Len(updated_videos) :
           (/\ HasLocal(updated_videos[i])
            /\ HasLocal(updated_videos[j])
            /\ updated_videos[i].video_url # updated_videos[j].video_url) =>
               updated_videos[i].local_file_path # updated_videos[j].local_file_path
    /\ \A i \in 1..Len(updated_videos) :
           HasLocal(updated_videos[i]) =>
               \/ disk[updated_videos[i].filename].state = "pre"
               \/ disk[updated_videos[i].filename].src = updated_videos[i].video_url

(***************************************************************************)
(* Properties of run (RunSpec).                                            *)
(***************************************************************************)
\* C24: when run has returned, on whichever menu path, no session created
\* during it is left: self.driver is None.
C24_RunTearsDown == rpc = "returned" => driver = "none"
====
